---- MODULE Spec2Model ----
(***************************************************************************)
(* Model of the batched two-phase trading orchestrator                     *)
(* (orchestrator.py), the wall-clock wait (stock_trader.py) and the task   *)
(* partitioning (chunk_tasks).                                             *)
(*                                                                         *)
(* Time is counted in whole seconds since midnight of day 0; a datetime is *)
(* one integer, its date is (t \div DaySeconds) and its time of day is     *)
(* (t % DaySeconds).                                                       *)
(*                                                                         *)
(* The workers drive a StockTrader through set_user_credentials,           *)
(* initialize_session, draft_single_task, execute_bulk_session,            *)
(* safe_logout and quit_driver.  These methods are not in stock_trader.py  *)
(* as given; each call is a nondeterministic choice among its outcomes     *)
(* (success, failure, exception), quit_driver returns normally, and        *)
(* StockTrader.wait_until_market_open is the module-level function of      *)
(* stock_trader.py.  execute_bulk_session runs execute_drafts.             *)
(***************************************************************************)
EXTENDS Integers, Sequences, FiniteSets, TLC

(***************************************************************************)
(* Program constants                                                       *)
(***************************************************************************)
DaySeconds == 86400
grace_period == 10
DefaultTargetHour == 8
DefaultTargetMinute == 45
OrchTargetMinute == 44
MAX_PROCESSES == 8
MaxLoginAttempts == 5

(***************************************************************************)
(* Bounds of the model                                                     *)
(***************************************************************************)
MaxTasks == 4
MaxChunks == 4
MaxCreds == 2
MaxRows == 3
MaxTrades == 2
MaxWriters == 2
MaxLogCalls == 4
MaxSolvers == 2

VARIABLES
    \* --- wait_until_market_open called on its own (SpecWait)
    w_pc, w_now, w_hour, w_minute, w_result,
    \* --- chunk_tasks called on its own (SpecChunk)
    c_pc, c_tasks, c_num, c_out,
    \* --- a run of main_orchestrator (Spec)
    now,               \* the wall clock, datetime.now()
    user_credentials,  \* what read_credentials() returned
    tasks,             \* list of (username, password, log_tag)
    task_batches,      \* chunk_tasks(tasks, MAX_PROCESSES)
    o_pc,              \* position of main_orchestrator
    o_abort,           \* why main_orchestrator returned early ("" if it did not)
    o_wake,            \* end of the orchestrator's time.sleep
    global_wait_done,  \* the call at orchestrator.py:186 has returned
    draft_results,     \* flattened items of the Phase 1 maps
    exec_results,      \* flattened items of the Phase 2 maps
    wk,                \* wk[phase][batch]: the pool worker running that batch
    waits,             \* every call of wait_until_market_open made so far
    submissions,       \* every click on the bulk order button so far
    \* --- read_trade_data called on its own (SpecTrades)
    t_pc,
    t_rows,            \* the rows of the sheet, as read by pd.read_excel
    t_trades,          \* the list read_trade_data returned
    t_invalid,         \* invalid_count
    \* --- StockTrader.run_workflow called for one account (SpecWorkflow)
    rw_pc,             \* position of run_workflow
    rw_trades,         \* self.trades
    rw_driver,         \* self.driver: "none", "live" or "quit"
    rw_logins,         \* what each call of login() returned and which marker it saw
    rw_i,              \* position of the draft loop in self.trades
    rw_events,         \* the steps create_draft took so far, in order
    rw_submitted,      \* what execute_drafts did
    rw_exit,           \* how run_workflow ended ("" while it runs)
    \* --- log called by the processes of a run (SpecLog)
    lg_pc,             \* lg_pc[w]: position of process w in log()
    lg_msg,            \* lg_msg[w]: the line process w is writing
    lg_file,           \* the lines of bot_log.txt
    lg_logged,         \* the lines whose call of log() has returned
    lg_n,              \* number of calls of log() so far
    \* --- process_and_solve_captcha called by the processes of a phase (SpecCaptcha)
    cp_pc,             \* cp_pc[w]: position of process w in process_and_solve_captcha
    cp_file,           \* whose image TEMP_IMAGE_FILE holds (0: the file does not exist)
    cp_text            \* cp_text[w]: the text returned to process w

waitVars == <<w_pc, w_now, w_hour, w_minute, w_result>>
chunkVars == <<c_pc, c_tasks, c_num, c_out>>
orchVars == <<now, user_credentials, tasks, task_batches, o_pc, o_abort, o_wake,
              global_wait_done, draft_results, exec_results, wk, waits, submissions>>
tradeVars == <<t_pc, t_rows, t_trades, t_invalid>>
flowVars == <<rw_pc, rw_trades, rw_driver, rw_logins, rw_i, rw_events, rw_submitted, rw_exit>>
logVars == <<lg_pc, lg_msg, lg_file, lg_logged, lg_n>>
captchaVars == <<cp_pc, cp_file, cp_text>>
vars == <<waitVars, chunkVars, orchVars, tradeVars, flowVars, logVars, captchaVars>>

(***************************************************************************)
(* wait_until_market_open (stock_trader.py)                                *)
(***************************************************************************)
\* dt_time(target_hour, target_minute, 0) as seconds after midnight
dt_time(hour, minute) == hour * 3600 + minute * 60

\* datetime.combine(date, time): the date is a day number
combine(date, tod) == date * DaySeconds + tod

\* now.date()
DateOf(at) == at \div DaySeconds

NoWait == [branch |-> "none", target_datetime |-> 0, sleep_duration |-> 0]

\* Mutant: the first comparison made inclusive (at >= target + grace).
wait_until_market_open_GraceExclusive(at, target_hour, target_minute) ==
    LET target_time_today == combine(DateOf(at), dt_time(target_hour, target_minute))
        tomorrow == combine(DateOf(at) + 1, dt_time(target_hour, target_minute))
    IN  IF at >= target_time_today + grace_period
        THEN [branch |-> "tomorrow", target_datetime |-> tomorrow,
              sleep_duration |-> tomorrow - at]
        ELSE IF at >= target_time_today
        THEN [branch |-> "grace", target_datetime |-> target_time_today,
              sleep_duration |-> 0]
        ELSE [branch |-> "today", target_datetime |-> target_time_today,
              sleep_duration |-> target_time_today - at]

\* Mutant: the grace window also opened before the target.
wait_until_market_open_GraceBefore(at, target_hour, target_minute) ==
    LET target_time_today == combine(DateOf(at), dt_time(target_hour, target_minute))
        tomorrow == combine(DateOf(at) + 1, dt_time(target_hour, target_minute))
    IN  IF at > target_time_today + grace_period
        THEN [branch |-> "tomorrow", target_datetime |-> tomorrow,
              sleep_duration |-> tomorrow - at]
        ELSE IF at >= target_time_today - grace_period
        THEN [branch |-> "grace", target_datetime |-> target_time_today,
              sleep_duration |-> 0]
        ELSE [branch |-> "today", target_datetime |-> target_time_today,
              sleep_duration |-> target_time_today - at]

\* Mutant: the shift to the following day forgotten (timedelta(days=1) dropped).
wait_until_market_open_NoDayShift(at, target_hour, target_minute) ==
    LET target_time_today == combine(DateOf(at), dt_time(target_hour, target_minute))
    IN  IF at > target_time_today + grace_period
        THEN [branch |-> "tomorrow", target_datetime |-> target_time_today,
              sleep_duration |-> target_time_today - at]
        ELSE IF at >= target_time_today
        THEN [branch |-> "grace", target_datetime |-> target_time_today,
              sleep_duration |-> 0]
        ELSE [branch |-> "today", target_datetime |-> target_time_today,
              sleep_duration |-> target_time_today - at]

\* The branch taken, the instant waited for and the sleep, for a call made at
\* the instant `at`.  Case 2 (the grace window) sets no target_datetime in the
\* code; the record carries today's target there.
wait_until_market_open(at, target_hour, target_minute) ==
    LET target_time_today == combine(DateOf(at), dt_time(target_hour, target_minute))
        tomorrow == combine(DateOf(at) + 1, dt_time(target_hour, target_minute))
    IN  IF at > target_time_today + grace_period
        THEN [branch |-> "tomorrow", target_datetime |-> tomorrow,
              sleep_duration |-> tomorrow - at]
        ELSE IF at >= target_time_today
        THEN [branch |-> "grace", target_datetime |-> target_time_today,
              sleep_duration |-> 0]
        ELSE [branch |-> "today", target_datetime |-> target_time_today,
              sleep_duration |-> target_time_today - at]

(***************************************************************************)
(* chunk_tasks (orchestrator.py)                                           *)
(***************************************************************************)
\* math.ceil(a / b) for a >= 0, b > 0
Ceil(a, b) == (a + b - 1) \div b

\* tasks[i:i + size] with a 0-based start i; the slice stops at the end of the list
Slice(lst, i, size) ==
    LET last == IF i + size < Len(lst) THEN i + size ELSE Len(lst)
    IN  [k \in 1..(last - i) |-> lst[i + k]]

\* Mutant: the chunk size rounded to floor + 1 instead of the ceiling.
chunk_tasks_FloorPlusOne(lst, num_chunks) ==
    IF num_chunks <= 0 THEN <<lst>>
    ELSE LET size == (Len(lst) \div num_chunks) + 1
             starts == Ceil(Len(lst), size)
         IN  [j \in 1..starts |-> Slice(lst, (j - 1) * size, size)]

\* [tasks[i:i + size] for i in range(0, len(tasks), size)].  range() with a
\* step of 0 raises; size is 0 only for an empty list, which main_orchestrator
\* never passes (it returns before), so the operator is used on non-empty lists.
chunk_tasks(lst, num_chunks) ==
    IF num_chunks <= 0 THEN <<lst>>
    ELSE LET size == Ceil(Len(lst), num_chunks)
             starts == Ceil(Len(lst), size)
         IN  [j \in 1..starts |-> Slice(lst, (j - 1) * size, size)]

\* concatenation of the batches, in order
RECURSIVE Flatten(_)
Flatten(batches) ==
    IF batches = <<>> THEN <<>>
    ELSE Head(batches) \o Flatten(Tail(batches))

(***************************************************************************)
(* SpecWait: one call of wait_until_market_open at every second of a day   *)
(***************************************************************************)
Targets == {<<DefaultTargetHour, DefaultTargetMinute>>, <<DefaultTargetHour, OrchTargetMinute>>}

ChunkIdle ==
    /\ c_pc = "off" /\ c_tasks = <<>> /\ c_num = 0 /\ c_out = <<>>

WaitIdle ==
    /\ w_pc = "off" /\ w_now = 0 /\ w_hour = 0 /\ w_minute = 0 /\ w_result = NoWait

TradesIdle ==
    /\ t_pc = "off" /\ t_rows = <<>> /\ t_trades = <<>> /\ t_invalid = 0

LogIdle ==
    /\ lg_pc = <<>> /\ lg_msg = <<>> /\ lg_file = <<>> /\ lg_logged = {} /\ lg_n = 0

CaptchaIdle ==
    /\ cp_pc = <<>> /\ cp_file = 0 /\ cp_text = <<>>

FlowIdle ==
    /\ rw_pc = "off" /\ rw_trades = <<>> /\ rw_driver = "none" /\ rw_logins = <<>>
    /\ rw_i = 0 /\ rw_events = <<>> /\ rw_submitted = "no" /\ rw_exit = ""

OrchIdle ==
    /\ now = 0 /\ user_credentials = <<>> /\ tasks = <<>> /\ task_batches = <<>>
    /\ o_pc = "off" /\ o_abort = "" /\ o_wake = 0 /\ global_wait_done = FALSE
    /\ draft_results = <<>> /\ exec_results = <<>> /\ wk = <<<<>>, <<>>>>
    /\ waits = {} /\ submissions = {}

InitWait ==
    /\ w_pc = "call"
    /\ w_now \in 0..(DaySeconds - 1)
    /\ \E t \in Targets : w_hour = t[1] /\ w_minute = t[2]
    /\ w_result = NoWait
    /\ ChunkIdle
    /\ OrchIdle
    /\ TradesIdle
    /\ FlowIdle
    /\ LogIdle
    /\ CaptchaIdle

WaitCall ==
    /\ w_pc = "call"
    /\ w_result' = wait_until_market_open(w_now, w_hour, w_minute)
    /\ w_pc' = "done"
    /\ UNCHANGED <<w_now, w_hour, w_minute, chunkVars, orchVars, tradeVars, flowVars, logVars, captchaVars>>

NextWait == WaitCall

SpecWait == InitWait /\ [][NextWait]_vars

(***************************************************************************)
(* SpecChunk: one call of chunk_tasks on every bounded list                *)
(***************************************************************************)
Accounts == {"u1", "u2", "u3"}

SeqsUpTo(S, n) == UNION {[1..k -> S] : k \in 0..n}

InitChunk ==
    /\ c_pc = "call"
    /\ c_tasks \in SeqsUpTo(Accounts, MaxTasks) \ {<<>>}
    /\ c_num \in 0..MaxChunks
    /\ c_out = <<>>
    /\ WaitIdle
    /\ OrchIdle
    /\ TradesIdle
    /\ FlowIdle
    /\ LogIdle
    /\ CaptchaIdle

ChunkCall ==
    /\ c_pc = "call"
    /\ c_out' = chunk_tasks(c_tasks, c_num)
    /\ c_pc' = "done"
    /\ UNCHANGED <<c_tasks, c_num, waitVars, orchVars, tradeVars, flowVars, logVars, captchaVars>>

NextChunk == ChunkCall

SpecChunk == InitChunk /\ [][NextChunk]_vars

(***************************************************************************)
(* A run of main_orchestrator (orchestrator.py)                            *)
(***************************************************************************)
Usernames == {"u1", "u2"}
Passwords == {"", "pw"}
Credential == [username : Usernames, password : Passwords]

Outcomes == {"SUCCESS", "LOGIN_FAILURE", "FAILURE", "PROCESS_ERROR"}

\* seconds a login (initialize_session: page load, CAPTCHA, retries) may take
LoginDelays == {5, 65, 90}
\* seconds the drafts tab and the select-all click may take (time.sleep(1) included)
SelectDelays == {1, 15}
\* time.sleep(10) after the bulk order click
SubmitSleep == 10

\* instants at which the run may start: before 08:44, inside the grace window
\* of 08:44, and after it
StartTimes == { dt_time(DefaultTargetHour, OrchTargetMinute) - 120,
                dt_time(DefaultTargetHour, OrchTargetMinute) + 5,
                dt_time(DefaultTargetHour, OrchTargetMinute) + 60 }

EmptyMap == [u \in {} |-> "SUCCESS"]

\* results[username] = outcome
Put(results, username, outcome) ==
    [u \in (DOMAIN results) \cup {username} |->
        IF u = username THEN outcome ELSE results[u]]

Max(a, b) == IF a >= b THEN a ELSE b

\* user_credentials[:1]
FirstOne(creds) == IF Len(creds) >= 1 THEN <<creds[1]>> ELSE <<>>

\* Mutant: the password test of the task loop dropped.
TasksOf_NoFilter(creds) == creds

\* the loop at orchestrator.py:154-159: a task for each credential of the
\* slice that has a non-empty password
RECURSIVE TasksOf(_)
TasksOf(creds) ==
    IF creds = <<>> THEN <<>>
    ELSE (IF Head(creds).password /= "" THEN <<Head(creds)>> ELSE <<>>)
         \o TasksOf(Tail(creds))

\* Mutant: the except handler records PROCESS_ERROR for nobody.
FillProcessError_Nothing(task_batch, results) == results

\* the except handler: for username in task_batch: if username not in results: ...
FillProcessError(task_batch, results) ==
    [u \in (DOMAIN results) \cup {task_batch[k].username : k \in 1..Len(task_batch)} |->
        IF u \in DOMAIN results THEN results[u] ELSE "PROCESS_ERROR"]

\* d.items() of one worker's map: dict order is insertion order, which is the
\* order of first occurrence in the batch
RECURSIVE Items(_, _, _)
Items(task_batch, results, seen) ==
    IF task_batch = <<>> THEN <<>>
    ELSE LET u == Head(task_batch).username
         IN  (IF u \in DOMAIN results /\ u \notin seen
              THEN <<[username |-> u, outcome |-> results[u]]>> ELSE <<>>)
             \o Items(Tail(task_batch), results, seen \cup {u})

\* itertools.chain.from_iterable(d.items() for d in all_results)
RECURSIVE ChainItems(_, _)
ChainItems(batches, workers) ==
    IF batches = <<>> THEN <<>>
    ELSE Items(Head(batches), Head(workers).results, {})
         \o ChainItems(Tail(batches), Tail(workers))

\* a task handed to the pool, not yet picked up by a process
\* calls: the StockTrader methods that returned or raised so far, by position k
\* of the account in the batch; quits: calls of quit_driver; failed: the except handler ran
Pending == [pc |-> "pending", i |-> 1, results |-> EmptyMap, trader |-> FALSE,
            driver |-> "none", wake |-> 0, outcome |-> "none",
            calls |-> {}, quits |-> 0, failed |-> FALSE]

Call(k, op, ret) == [k |-> k, op |-> op, ret |-> ret]

\* the phase action of the loop body
PhaseAction(p) == IF p = 1 THEN "draft_single_task" ELSE "execute_bulk_session"

\* Mutant: the two branches of the if exchanged.
OutcomeOf_Exchanged(ret) == IF ret = "ok" THEN "FAILURE" ELSE "SUCCESS"

\* orchestrator.py:58-63 / 117-122: the outcome stored for what the phase
\* action returned
OutcomeOf(ret) == IF ret = "ok" THEN "SUCCESS" ELSE "FAILURE"

\* Mutant: the `continue` after LOGIN_FAILURE lost; the loop body goes on.
OnLoginFailure_FallThrough(w, username, p) ==
    [w EXCEPT !.results = Put(@, username, "LOGIN_FAILURE"),
              !.driver = "open",
              !.calls = @ \cup {Call(w.i, "initialize_session", "fail")},
              !.pc = IF p = 1 THEN "action" ELSE "sync"]

\* orchestrator.py:53-55 / 107-109: initialize_session returned False
OnLoginFailure(w, username, p) ==
    [w EXCEPT !.results = Put(@, username, "LOGIN_FAILURE"),
              !.driver = "open",
              !.calls = @ \cup {Call(w.i, "initialize_session", "fail")},
              !.i = @ + 1]

\* Mutant: the handler marks every account of the batch, resolved or not.
OnException_Overwrite(w, task_batch) ==
    [w EXCEPT !.results = [u \in (DOMAIN w.results) \cup
                               {task_batch[k].username : k \in 1..Len(task_batch)}
                           |-> "PROCESS_ERROR"],
              !.failed = TRUE,
              !.pc = "finally"]

\* orchestrator.py:68-72 / 127-131: the except clause
OnException(w, task_batch) ==
    [w EXCEPT !.results = FillProcessError(task_batch, @),
              !.failed = TRUE,
              !.pc = "finally"]

\* Mutant: the driver is left running when the batch ends.
Finally_NoQuit(w) == [w EXCEPT !.pc = "returned"]

\* orchestrator.py:73-78 / 132-137: if trader: trader.quit_driver(); return
Finally(w) ==
    IF w.trader
    THEN [w EXCEPT !.driver = IF @ = "open" THEN "quit" ELSE @,
                   !.quits = @ + 1,
                   !.pc = "returned"]
    ELSE [w EXCEPT !.pc = "returned"]

\* Mutant: the join does not wait for the workers (results taken at once).
AllReturned_NoBarrier(workers) == TRUE

\* pool.map returns when every task of the phase has returned
AllReturned(workers) == \A b \in 1..Len(workers) : workers[b].pc = "returned"

\* Mutant: Phase 2 is launched straight after Phase 1 and the wait comes last.
StepAfter_WaitLast(pc) ==
    CASE pc = "join1" -> "launch2"
      [] pc = "join2" -> "wait"
      [] pc = "sleeping" -> "done"

\* the statement main_orchestrator reaches after the one at pc has returned:
\* Phase 1 map, then the wait, then the Phase 2 map
StepAfter(pc) ==
    CASE pc = "join1" -> "wait"
      [] pc = "sleeping" -> "launch2"
      [] pc = "join2" -> "done"

Init ==
    /\ now \in StartTimes
    /\ user_credentials \in SeqsUpTo(Credential, MaxCreds)
    /\ tasks = <<>>
    /\ task_batches = <<>>
    /\ o_pc = "start"
    /\ o_abort = ""
    /\ o_wake = 0
    /\ global_wait_done = FALSE
    /\ draft_results = <<>>
    /\ exec_results = <<>>
    /\ wk = [p \in 1..2 |-> <<>>]
    /\ waits = {}
    /\ submissions = {}
    /\ WaitIdle
    /\ ChunkIdle
    /\ TradesIdle
    /\ FlowIdle
    /\ LogIdle
    /\ CaptchaIdle

\* Mutant: the `return` of the Phase 1 except clause lost.
Abort_NoReturn(reason) ==
    /\ o_pc' = IF reason = "pool1" THEN "wait" ELSE "aborted"
    /\ o_abort' = reason

\* the `return` statements at orchestrator.py:150, 163, 179 and 200
Abort(reason) ==
    /\ o_pc' = "aborted"
    /\ o_abort' = reason

\* orchestrator.py:145-175, up to the blocking pool.map of Phase 1
OrchStart ==
    /\ o_pc = "start"
    /\ IF user_credentials = <<>>
       THEN /\ Abort("no_credentials")
            /\ UNCHANGED <<tasks, task_batches, wk>>
       ELSE LET t == TasksOf(FirstOne(user_credentials))
            IN  IF t = <<>>
                THEN /\ Abort("no_tasks")
                     /\ tasks' = t
                     /\ UNCHANGED <<task_batches, wk>>
                ELSE /\ tasks' = t
                     /\ task_batches' = chunk_tasks(t, MAX_PROCESSES)
                     /\ \/ /\ wk' = [wk EXCEPT ![1] =
                                       [b \in 1..Len(chunk_tasks(t, MAX_PROCESSES)) |-> Pending]]
                           /\ o_pc' = "join1"
                           /\ UNCHANGED o_abort
                        \/ \* Pool(...) raises: caught at :177, the run returns
                           /\ Abort("pool1")
                           /\ UNCHANGED wk
    /\ UNCHANGED <<now, user_credentials, o_wake, global_wait_done, draft_results,
                   exec_results, waits, submissions, waitVars, chunkVars, tradeVars, flowVars, logVars, captchaVars>>

\* orchestrator.py:175-183: pool.map returns, the maps are flattened
OrchJoin1 ==
    /\ o_pc = "join1"
    /\ AllReturned(wk[1])
    /\ draft_results' = ChainItems(task_batches, wk[1])
    /\ o_pc' = StepAfter("join1")
    /\ UNCHANGED <<now, user_credentials, tasks, task_batches, o_abort, o_wake,
                   global_wait_done, exec_results, wk, waits, submissions,
                   waitVars, chunkVars, tradeVars, flowVars, logVars, captchaVars>>

\* orchestrator.py:186 -> stock_trader.py:29-57: the duration is computed and
\* time.sleep entered
OrchWaitBegin ==
    /\ o_pc = "wait"
    /\ LET r == wait_until_market_open(now, DefaultTargetHour, OrchTargetMinute)
       IN  /\ waits' = waits \cup {[by |-> "orchestrator", phase |-> 0, batch |-> 0,
                                    username |-> "", hour |-> DefaultTargetHour,
                                    minute |-> OrchTargetMinute, at |-> now, result |-> r]}
           /\ o_wake' = now + r.sleep_duration
    /\ o_pc' = "sleeping"
    /\ UNCHANGED <<now, user_credentials, tasks, task_batches, o_abort,
                   global_wait_done, draft_results, exec_results, wk, submissions,
                   waitVars, chunkVars, tradeVars, flowVars, logVars, captchaVars>>

\* stock_trader.py:42/57-59: the sleep ends and the call returns
OrchWaitEnd ==
    /\ o_pc = "sleeping"
    /\ now' = Max(now, o_wake)
    /\ global_wait_done' = TRUE
    /\ o_pc' = StepAfter("sleeping")
    /\ UNCHANGED <<user_credentials, tasks, task_batches, o_abort, o_wake,
                   draft_results, exec_results, wk, waits, submissions,
                   waitVars, chunkVars, tradeVars, flowVars, logVars, captchaVars>>

\* Mutant: a batch is executed only if all its drafts succeeded.
Phase2Tasks_OnlyDrafted(batches) ==
    [b \in 1..Len(batches) |->
        IF \A u \in DOMAIN wk[1][b].results : wk[1][b].results[u] = "SUCCESS"
        THEN Pending
        ELSE [Pending EXCEPT !.pc = "returned"]]

\* orchestrator.py:196: pool.map(run_batched_execution_process, task_batches)
Phase2Tasks(batches) == [b \in 1..Len(batches) |-> Pending]

\* orchestrator.py:190-196, up to the blocking pool.map of Phase 2
OrchLaunch2 ==
    /\ o_pc = "launch2"
    /\ \/ /\ wk' = [wk EXCEPT ![2] = Phase2Tasks(task_batches)]
          /\ o_pc' = "join2"
          /\ UNCHANGED o_abort
       \/ /\ Abort("pool2")
          /\ UNCHANGED wk
    /\ UNCHANGED <<now, user_credentials, tasks, task_batches, o_wake,
                   global_wait_done, draft_results, exec_results, waits, submissions,
                   waitVars, chunkVars, tradeVars, flowVars, logVars, captchaVars>>

\* orchestrator.py:196-205
OrchJoin2 ==
    /\ o_pc = "join2"
    /\ AllReturned(wk[2])
    /\ exec_results' = ChainItems(task_batches, wk[2])
    /\ o_pc' = StepAfter("join2")
    /\ UNCHANGED <<now, user_credentials, tasks, task_batches, o_abort, o_wake,
                   global_wait_done, draft_results, wk, waits, submissions,
                   waitVars, chunkVars, tradeVars, flowVars, logVars, captchaVars>>

\* with Pool(...) as pool: leaving the block terminates the pool's processes
Terminate(workers) ==
    [b \in 1..Len(workers) |->
        IF workers[b].pc \in {"returned", "escaped"} THEN workers[b]
        ELSE [workers[b] EXCEPT !.pc = "terminated"]]

JoinOf(p) == IF p = 1 THEN "join1" ELSE "join2"
PoolErrorOf(p) == IF p = 1 THEN "pool1" ELSE "pool2"

\* orchestrator.py:175-179 / 196-200: pool.map re-raises the exception that
\* left a worker function; the except clause logs it and the run returns
OrchMapRaises(p) ==
    /\ o_pc = JoinOf(p)
    /\ \E b \in 1..Len(wk[p]) : wk[p][b].pc = "escaped"
    /\ Abort(PoolErrorOf(p))
    /\ wk' = [wk EXCEPT ![p] = Terminate(@)]
    /\ UNCHANGED <<now, user_credentials, tasks, task_batches, o_wake,
                   global_wait_done, draft_results, exec_results, waits, submissions,
                   waitVars, chunkVars, tradeVars, flowVars, logVars, captchaVars>>

(***************************************************************************)
(* The pool workers: run_batched_draft_process (phase 1) and               *)
(* run_batched_execution_process (phase 2)                                 *)
(***************************************************************************)
\* seconds draft_single_task may take
DraftDelays == {20}

WorkerFrame ==
    UNCHANGED <<user_credentials, tasks, task_batches, o_pc, o_abort, o_wake,
                global_wait_done, draft_results, exec_results, waitVars, chunkVars, tradeVars, flowVars, logVars, captchaVars>>

CurrentUser(p, b) == task_batches[b][wk[p][b].i].username

WaitEvent(by, p, b, at, r) ==
    [by |-> by, phase |-> p, batch |-> b, username |-> CurrentUser(p, b),
     hour |-> DefaultTargetHour, minute |-> DefaultTargetMinute, at |-> at, result |-> r]

\* orchestrator.py:33-43 / 87-96: the empty batch returns at once; otherwise
\* the StockTrader is constructed, which may raise
WorkerStart(p, b) ==
    /\ wk[p][b].pc = "pending"
    /\ IF task_batches[b] = <<>>
       THEN wk' = [wk EXCEPT ![p][b].pc = "returned"]
       ELSE \/ wk' = [wk EXCEPT ![p][b].pc = "loop", ![p][b].trader = TRUE]
            \/ wk' = [wk EXCEPT ![p][b].pc = "except"]
    /\ UNCHANGED <<now, waits, submissions>>
    /\ WorkerFrame

\* orchestrator.py:46-55 / 100-109: set_user_credentials, initialize_session
WorkerLogin(p, b) ==
    /\ wk[p][b].pc = "loop"
    /\ wk[p][b].i <= Len(task_batches[b])
    /\ \E d \in LoginDelays :
          /\ now' = now + d
          /\ \/ \* login failed after its retries
                wk' = [wk EXCEPT ![p][b] = OnLoginFailure(@, CurrentUser(p, b), p)]
             \/ \* logged in
                wk' = [wk EXCEPT ![p][b].driver = "open",
                                 ![p][b].calls =
                                     @ \cup {Call(wk[p][b].i, "initialize_session", "ok")},
                                 ![p][b].pc = IF p = 1 THEN "action" ELSE "sync"]
             \/ \* an exception escapes
                wk' = [wk EXCEPT ![p][b].calls =
                                     @ \cup {Call(wk[p][b].i, "initialize_session", "raise")},
                                 ![p][b].pc = "except"]
    /\ UNCHANGED <<waits, submissions>>
    /\ WorkerFrame

\* the for loop is exhausted
WorkerLoopEnd(p, b) ==
    /\ wk[p][b].pc = "loop"
    /\ wk[p][b].i > Len(task_batches[b])
    /\ wk' = [wk EXCEPT ![p][b].pc = "finally"]
    /\ UNCHANGED <<now, waits, submissions>>
    /\ WorkerFrame

\* orchestrator.py:58-63: draft_single_task
WorkerDraft(b) ==
    /\ wk[1][b].pc = "action"
    /\ \E d \in DraftDelays :
          /\ now' = now + d
          /\ \/ wk' = [wk EXCEPT ![1][b].outcome = OutcomeOf("ok"), ![1][b].pc = "record",
                                 ![1][b].calls =
                                     @ \cup {Call(wk[1][b].i, PhaseAction(1), "ok")}]
             \/ wk' = [wk EXCEPT ![1][b].outcome = OutcomeOf("fail"), ![1][b].pc = "record",
                                 ![1][b].calls =
                                     @ \cup {Call(wk[1][b].i, PhaseAction(1), "fail")}]
             \/ wk' = [wk EXCEPT ![1][b].pc = "except",
                                 ![1][b].calls =
                                     @ \cup {Call(wk[1][b].i, PhaseAction(1), "raise")}]
    /\ UNCHANGED <<waits, submissions>>
    /\ WorkerFrame

\* orchestrator.py:110-113 -> stock_trader.py:29-57: the worker's own call of
\* wait_until_market_open(), with the default target, for the account at hand
WorkerSyncBegin(b) ==
    /\ wk[2][b].pc = "sync"
    /\ LET r == wait_until_market_open(now, DefaultTargetHour, DefaultTargetMinute)
       IN  /\ waits' = waits \cup {WaitEvent("worker", 2, b, now, r)}
           /\ wk' = [wk EXCEPT ![2][b].wake = now + r.sleep_duration,
                               ![2][b].calls =
                                   @ \cup {Call(wk[2][b].i, "wait_until_market_open", "ok")},
                               ![2][b].pc = "sync_sleep"]
    /\ UNCHANGED <<now, submissions>>
    /\ WorkerFrame

WorkerSyncEnd(b) ==
    /\ wk[2][b].pc = "sync_sleep"
    /\ now' = Max(now, wk[2][b].wake)
    /\ wk' = [wk EXCEPT ![2][b].pc = "action"]
    /\ UNCHANGED <<waits, submissions>>
    /\ WorkerFrame

\* orchestrator.py:117 -> stock_trader.py:245-262 (execute_drafts): the drafts
\* tab and the select-all box are clicked, then wait_until_market_open() is
\* called before the bulk order button
WorkerExecSelect(b) ==
    /\ wk[2][b].pc = "action"
    /\ \E d \in SelectDelays :
          /\ now' = now + d
          /\ \/ \* both elements found: the wait at stock_trader.py:262
                LET r == wait_until_market_open(now + d, DefaultTargetHour, DefaultTargetMinute)
                IN  /\ waits' = waits \cup {WaitEvent("session", 2, b, now + d, r)}
                    /\ wk' = [wk EXCEPT ![2][b].wake = now + d + r.sleep_duration,
                                        ![2][b].pc = "exec_sleep"]
             \/ \* an element is missing: caught at stock_trader.py:275-278
                /\ wk' = [wk EXCEPT ![2][b].outcome = OutcomeOf("fail"), ![2][b].pc = "record",
                                    ![2][b].calls =
                                        @ \cup {Call(wk[2][b].i, PhaseAction(2), "fail")}]
                /\ UNCHANGED waits
             \/ \* an exception escapes execute_bulk_session
                /\ wk' = [wk EXCEPT ![2][b].pc = "except",
                                    ![2][b].calls =
                                        @ \cup {Call(wk[2][b].i, PhaseAction(2), "raise")}]
                /\ UNCHANGED waits
    /\ UNCHANGED submissions
    /\ WorkerFrame

\* stock_trader.py:264-273: the sleep ends, the bulk order button is clicked
WorkerExecSubmit(b) ==
    /\ wk[2][b].pc = "exec_sleep"
    /\ LET woke == Max(now, wk[2][b].wake)
       IN  \/ /\ submissions' = submissions \cup
                     {[username |-> CurrentUser(2, b), batch |-> b, at |-> woke]}
              /\ now' = woke + SubmitSleep
              /\ wk' = [wk EXCEPT ![2][b].outcome = OutcomeOf("ok"), ![2][b].pc = "record",
                                  ![2][b].calls =
                                      @ \cup {Call(wk[2][b].i, PhaseAction(2), "ok")}]
           \/ /\ now' = woke
              /\ wk' = [wk EXCEPT ![2][b].outcome = OutcomeOf("fail"), ![2][b].pc = "record",
                                  ![2][b].calls =
                                      @ \cup {Call(wk[2][b].i, PhaseAction(2), "fail")}]
              /\ UNCHANGED submissions
    /\ UNCHANGED waits
    /\ WorkerFrame

\* orchestrator.py:59-66 / 118-125: the outcome is stored, then safe_logout
WorkerRecord(p, b) ==
    /\ wk[p][b].pc = "record"
    /\ \/ wk' = [wk EXCEPT ![p][b].results = Put(@, CurrentUser(p, b), wk[p][b].outcome),
                           ![p][b].outcome = "none",
                           ![p][b].calls = @ \cup {Call(wk[p][b].i, "safe_logout", "ok")},
                           ![p][b].i = @ + 1,
                           ![p][b].pc = "loop"]
       \/ \* safe_logout raises
          wk' = [wk EXCEPT ![p][b].results = Put(@, CurrentUser(p, b), wk[p][b].outcome),
                           ![p][b].outcome = "none",
                           ![p][b].calls = @ \cup {Call(wk[p][b].i, "safe_logout", "raise")},
                           ![p][b].pc = "except"]
    /\ UNCHANGED <<now, waits, submissions>>
    /\ WorkerFrame

\* orchestrator.py:68-72 / 127-131
WorkerExcept(p, b) ==
    /\ wk[p][b].pc = "except"
    /\ wk' = [wk EXCEPT ![p][b] = OnException(@, task_batches[b])]
    /\ UNCHANGED <<now, waits, submissions>>
    /\ WorkerFrame

\* orchestrator.py:73-78 / 132-137: quit_driver if a trader was made; return.
\* The call stands outside every try: when it raises, the exception leaves the
\* worker function.
WorkerFinally(p, b) ==
    /\ wk[p][b].pc = "finally"
    /\ \/ wk' = [wk EXCEPT ![p][b] = Finally(@)]
       \/ /\ wk[p][b].trader
          /\ wk' = [wk EXCEPT ![p][b].quits = @ + 1, ![p][b].pc = "escaped"]
    /\ UNCHANGED <<now, waits, submissions>>
    /\ WorkerFrame

Next ==
    \/ OrchStart
    \/ OrchJoin1
    \/ OrchWaitBegin
    \/ OrchWaitEnd
    \/ OrchLaunch2
    \/ OrchJoin2
    \/ \E p \in 1..2 : OrchMapRaises(p)
    \/ \E p \in 1..2 : \E b \in 1..Len(wk[p]) :
          \/ WorkerStart(p, b)
          \/ WorkerLogin(p, b)
          \/ WorkerLoopEnd(p, b)
          \/ WorkerRecord(p, b)
          \/ WorkerExcept(p, b)
          \/ WorkerFinally(p, b)
    \/ \E b \in 1..Len(wk[1]) : WorkerDraft(b)
    \/ \E b \in 1..Len(wk[2]) :
          \/ WorkerSyncBegin(b)
          \/ WorkerSyncEnd(b)
          \/ WorkerExecSelect(b)
          \/ WorkerExecSubmit(b)

Spec == Init /\ [][Next]_vars

(***************************************************************************)
(* read_trade_data (utils.py)                                              *)
(*                                                                         *)
(* A string is a sequence of one-character strings.  A cell of the sheet   *)
(* is a string or empty (NaN); a numeric cell is a number or not.          *)
(***************************************************************************)
LowerCase == <<"a", "b", "d", "e", "h", "l", "n", "o", "s", "u", "y">>
UpperCase == <<"A", "B", "D", "E", "H", "L", "N", "O", "S", "U", "Y">>

IndexIn(c, alphabet) ==
    IF \E i \in 1..Len(alphabet) : alphabet[i] = c
    THEN CHOOSE i \in 1..Len(alphabet) : alphabet[i] = c
    ELSE 0

IsLetter(c) == IndexIn(c, LowerCase) > 0 \/ IndexIn(c, UpperCase) > 0

UpperChar(c) == IF IndexIn(c, LowerCase) > 0 THEN UpperCase[IndexIn(c, LowerCase)] ELSE c
LowerChar(c) == IF IndexIn(c, UpperCase) > 0 THEN LowerCase[IndexIn(c, UpperCase)] ELSE c

\* the code point order of the characters in use: space, upper case, lower case
Code(c) ==
    IF c = " " THEN 32
    ELSE IF IndexIn(c, UpperCase) > 0 THEN 64 + IndexIn(c, UpperCase)
    ELSE 96 + IndexIn(c, LowerCase)

Str(s) == [nan |-> FALSE, s |-> s]
NaNCell == [nan |-> TRUE, s |-> <<>>]

\* .astype(str): an empty cell becomes the text "nan"
AsStr(cell) == IF cell.nan THEN <<"n", "a", "n">> ELSE cell.s

\* .str.strip()
RECURSIVE LStrip(_)
LStrip(s) == IF s /= <<>> /\ Head(s) = " " THEN LStrip(Tail(s)) ELSE s

RECURSIVE RStrip(_)
RStrip(s) ==
    IF s /= <<>> /\ s[Len(s)] = " " THEN RStrip(SubSeq(s, 1, Len(s) - 1)) ELSE s

Strip(s) == RStrip(LStrip(s))

\* .str.upper()
Upper(s) == [i \in 1..Len(s) |-> UpperChar(s[i])]

\* .str.title(): a letter is upper case after a non-letter, lower case after a letter
Title(s) ==
    [i \in 1..Len(s) |->
        IF i = 1 \/ ~IsLetter(s[i - 1]) THEN UpperChar(s[i]) ELSE LowerChar(s[i])]

\* pd.to_numeric(errors='coerce').fillna(0).astype(int)
ToInt(cell) == IF cell.num THEN cell.val ELSE 0

Num(v) == [num |-> TRUE, val |-> v]
NotANumber == [num |-> FALSE, val |-> 0]

Buy == <<"B", "u", "y">>
Sell == <<"S", "e", "l", "l">>
valid_directions == {Buy, Sell}

\* utils.py:108-112: the cleaned row
Clean(row) ==
    [Name |-> Upper(Strip(AsStr(row.Name))),
     Price |-> ToInt(row.Price),
     Volume |-> ToInt(row.Volume),
     Direction |-> Title(Strip(AsStr(row.Direction)))]

\* Mutant: the test of the name dropped from the filter.
IsValid_DirectionOnly(trade) == trade.Direction \in valid_directions

\* utils.py:115: df['Direction'].isin(valid_directions) & (df['Name'].str.len() > 0)
IsValid(trade) == trade.Direction \in valid_directions /\ Len(trade.Name) > 0

\* utils.py:122-124
Sort_Key(trade) ==
    (IF trade.Price = 0 THEN 1 ELSE 0) + (IF trade.Volume = 0 THEN 1 ELSE 0)

\* a < b for two strings, as Python compares them
RECURSIVE LexLess(_, _)
LexLess(a, b) ==
    IF b = <<>> THEN FALSE
    ELSE IF a = <<>> THEN TRUE
    ELSE IF Code(Head(a)) /= Code(Head(b)) THEN Code(Head(a)) < Code(Head(b))
    ELSE LexLess(Tail(a), Tail(b))

\* Mutant: ascending=[True, True].
Before_KeyAscending(x, y) ==
    \/ Sort_Key(x) < Sort_Key(y)
    \/ Sort_Key(x) = Sort_Key(y) /\ LexLess(x.Name, y.Name)

\* x sorts strictly before y under by=['Sort_Key', 'Name'], ascending=[False, True]
Before(x, y) ==
    \/ Sort_Key(x) > Sort_Key(y)
    \/ Sort_Key(x) = Sort_Key(y) /\ LexLess(x.Name, y.Name)

RECURSIVE InsertSorted(_, _)
InsertSorted(x, s) ==
    IF s = <<>> THEN <<x>>
    ELSE IF Before(x, Head(s)) THEN <<x>> \o s
    ELSE <<Head(s)>> \o InsertSorted(x, Tail(s))

\* df_valid.sort_values(...): rows with equal keys keep their order
RECURSIVE sort_values(_)
sort_values(s) ==
    IF s = <<>> THEN <<>>
    ELSE InsertSorted(s[Len(s)], sort_values(SubSeq(s, 1, Len(s) - 1)))

RECURSIVE CleanAll(_)
CleanAll(rows) ==
    IF rows = <<>> THEN <<>> ELSE <<Clean(Head(rows))>> \o CleanAll(Tail(rows))

RECURSIVE KeepValid(_)
KeepValid(df) ==
    IF df = <<>> THEN <<>>
    ELSE (IF IsValid(Head(df)) THEN <<Head(df)>> ELSE <<>>) \o KeepValid(Tail(df))

\* utils.py:87-130 for a sheet that exists and has the four columns
read_trade_data(rows) ==
    LET df == CleanAll(rows)
        df_valid == KeepValid(df)
    IN  [trades |-> sort_values(df_valid),
         invalid_count |-> Len(df) - Len(df_valid)]

Row(name, price, volume, direction) ==
    [Name |-> name, Price |-> price, Volume |-> volume, Direction |-> direction]

\* the rows a sheet may hold
RawRows ==
    { Row(Str(<<" ", "b">>), Num(0), Num(0), Str(<<"b", "u", "y">>)),
      Row(Str(<<"A">>), Num(0), Num(150), Str(<<" ", "S", "E", "L", "L">>)),
      Row(Str(<<"a", "b", " ">>), Num(500), Num(0), Str(<<"B", "u", "y">>)),
      Row(Str(<<"a">>), Num(500), Num(150), Str(<<"s", "e", "l", "l", " ">>)),
      Row(Str(<<"B">>), NotANumber, Num(150), Str(<<"b", "U", "Y">>)),
      Row(Str(<<" ">>), Num(500), Num(150), Str(<<"b", "u", "y">>)),
      Row(Str(<<"a">>), Num(0), Num(0), Str(<<"h", "o", "l", "d">>)),
      Row(NaNCell, Num(500), Num(150), Str(<<"S", "e", "l", "l">>)),
      Row(Str(<<"b">>), Num(0), Num(150), NaNCell),
      Row(Str(<<>>), Num(0), Num(0), Str(<<"b", "u", "y", "s">>)) }

InitTrades ==
    /\ t_pc = "call"
    /\ t_rows \in SeqsUpTo(RawRows, MaxRows)
    /\ t_trades = <<>>
    /\ t_invalid = 0
    /\ WaitIdle
    /\ ChunkIdle
    /\ OrchIdle
    /\ FlowIdle
    /\ LogIdle
    /\ CaptchaIdle

ReadTradeData ==
    /\ t_pc = "call"
    /\ t_trades' = read_trade_data(t_rows).trades
    /\ t_invalid' = read_trade_data(t_rows).invalid_count
    /\ t_pc' = "done"
    /\ UNCHANGED <<t_rows, waitVars, chunkVars, orchVars, flowVars, logVars, captchaVars>>

NextTrades == ReadTradeData

SpecTrades == InitTrades /\ [][NextTrades]_vars

(***************************************************************************)
(* Claims about read_trade_data                                            *)
(***************************************************************************)
\* the key of the sort policy, from the fields of a returned record
PolicyKey(r) == (IF r.Price = 0 THEN 1 ELSE 0) + (IF r.Volume = 0 THEN 1 ELSE 0)

\* the rule of the data model: direction is Buy or Sell, name is not empty
KeptByRule(r) == r.Direction \in {Buy, Sell} /\ r.Name /= <<>>

Occurrences(s, r) == Cardinality({i \in 1..Len(s) : s[i] = r})

\* C19: in the returned list every record of key 2 comes before every record
\* of key 1, which comes before every record of key 0; among records of one
\* key the names do not decrease; the list is a permutation of the valid
\* cleaned records of the sheet.
C19_SortPolicy ==
    t_pc = "done" =>
       /\ \A i, j \in 1..Len(t_trades) :
             i < j => /\ PolicyKey(t_trades[i]) >= PolicyKey(t_trades[j])
                      /\ (PolicyKey(t_trades[i]) = PolicyKey(t_trades[j])
                            => ~LexLess(t_trades[j].Name, t_trades[i].Name))
       /\ \A r \in {Clean(t_rows[k]) : k \in 1..Len(t_rows)} \cup
                   {t_trades[k] : k \in 1..Len(t_trades)} :
             Occurrences(t_trades, r) =
                (IF KeptByRule(r) THEN Occurrences(CleanAll(t_rows), r) ELSE 0)

\* three valid rows given in the order key 0, key 1, key 2 come out reversed
C19_Witness ==
    /\ t_pc = "done"
    /\ Len(t_rows) = 3 /\ Len(t_trades) = 3
    /\ PolicyKey(Clean(t_rows[1])) = 0
    /\ PolicyKey(Clean(t_rows[3])) = 2
    /\ PolicyKey(t_trades[1]) = 2 /\ PolicyKey(t_trades[2]) = 1 /\ PolicyKey(t_trades[3]) = 0

\* C20: a row is returned if and only if its cleaned direction is exactly Buy
\* or Sell and its cleaned name is not empty; invalid_count is the number of
\* rows dropped, the input count minus the output count.
C20_ValidationFilter ==
    t_pc = "done" =>
       /\ \A k \in 1..Len(t_rows) :
             KeptByRule(Clean(t_rows[k])) <=>
                \E j \in 1..Len(t_trades) : t_trades[j] = Clean(t_rows[k])
       /\ Len(t_trades) = Cardinality({k \in 1..Len(t_rows) : KeptByRule(Clean(t_rows[k]))})
       /\ t_invalid = Cardinality({k \in 1..Len(t_rows) : ~KeptByRule(Clean(t_rows[k]))})
       /\ t_invalid = Len(t_rows) - Len(t_trades)

\* a row with a blank name, one with direction "hold" and one valid row
C20_Witness ==
    /\ t_pc = "done"
    /\ Len(t_rows) = 3 /\ Len(t_trades) = 1 /\ t_invalid = 2
    /\ \E k \in 1..3 : Clean(t_rows[k]).Name = <<>>
    /\ \E k \in 1..3 : Clean(t_rows[k]).Direction = <<"H", "o", "l", "d">>

(***************************************************************************)
(* StockTrader.run_workflow (stock_trader.py) for one account              *)
(***************************************************************************)
ModalStates == {"absent", "closable", "stuck", "error"}

\* stock_trader.py:282-323.  The waits for the change-password modal throw
\* TimeoutException when it is absent; every exception is caught inside.
check_and_close_password_modal(modal) ==
    LET thrown == IF modal = "absent" THEN "TimeoutException"
                  ELSE IF modal = "error" THEN "WebDriverException"
                  ELSE "none"
        \* except TimeoutException (320), except Exception (322)
        caught == thrown \in {"TimeoutException", "WebDriverException"}
    IN  [raises |-> IF caught THEN "none" ELSE thrown,
         found |-> modal \in {"closable", "stuck"}]

Page(form, captcha, dashboard, modal) ==
    [form |-> form, captcha |-> captcha, dashboard |-> dashboard, modal |-> modal]

\* what the site may show to one login attempt
LoginPages ==
    { Page("missing", "solved", FALSE, "absent"),
      Page("ok", "empty", FALSE, "absent"),
      Page("ok", "solved", TRUE, "absent"),
      Page("ok", "solved", FALSE, "closable"),
      Page("ok", "solved", FALSE, "stuck"),
      Page("ok", "solved", FALSE, "absent"),
      Page("ok", "solved", FALSE, "error") }

LoginResult(ret, marker) == [ret |-> ret, marker |-> marker]

\* stock_trader.py:95-154
login(page) ==
    IF page.form = "missing" THEN LoginResult(FALSE, "none")        \* except Exception (152)
    ELSE IF page.captcha = "empty" THEN LoginResult(FALSE, "none")  \* 114-116
    ELSE IF page.dashboard THEN LoginResult(TRUE, "dashboard")      \* 128-134
    ELSE \* except TimeoutException (136)
         LET c == check_and_close_password_modal(page.modal)
         IN  IF c.raises = "TimeoutException"
             THEN LoginResult(FALSE, "none")                        \* 146-150
             ELSE LoginResult(TRUE, IF c.found THEN "modal" ELSE "none")  \* 144

\* Mutant: the loop does not break on a successful login.
AfterLoginAttempt_NoBreak(attempt, ok) ==
    IF attempt + 1 < MaxLoginAttempts THEN "retry"
    ELSE IF ok THEN "break" ELSE "else"

\* stock_trader.py:344-352: for attempt in range(5) ... else
AfterLoginAttempt(attempt, ok) ==
    IF ok THEN "break"
    ELSE IF attempt + 1 < MaxLoginAttempts THEN "retry"
    ELSE "else"

\* config.py:48-60
MODAL_XPATHS_RELATIVE ==
    {"SEARCH_INPUT", "BUY_BUTTON", "SELL_BUTTON", "MAX_VOLUME_CLICK", "LOCK_PRICE_BUTTON",
     "CLOSE_MODAL_BUTTON", "VOLUME_INPUT", "PRICE_INPUT", "DRAFT_SELECTION", "DRAFT_BUTTON"}

\* stock_trader.py:85-92: what looking up the element of a key throws
find_modal_element(xpath_key, missing) ==
    IF xpath_key \notin MODAL_XPATHS_RELATIVE THEN "KeyError"
    ELSE IF xpath_key \in missing THEN "NoSuchElementException"
    ELSE "none"

\* the elements create_draft uses, in the order of stock_trader.py:168-222
DraftSteps(trade_data) ==
    <<"OPEN_MODAL_BUTTON",
      IF trade_data.Direction = Buy THEN "BUY_BUTTON" ELSE "SELL_BUTTON",
      "SEARCH_INPUT",
      "SEARCH_RESULT_DIV",
      IF trade_data.Volume = 0 THEN "MAX_VOLUME_CLICK" ELSE "VOLUME_INPUT",
      IF trade_data.Price = 0 THEN "LOCK_PRICE_BUTTON" ELSE "PRICE_INPUT",
      "DRAFT_SELECTION",
      "DRAFT_BUTTON">>

StepThrows(xpath_key, missing) ==
    IF xpath_key = "OPEN_MODAL_BUTTON"
    THEN (IF xpath_key \in missing THEN "NoSuchElementException" ELSE "none")
    ELSE find_modal_element(xpath_key, missing)

Event(op, trade_index, key, thrown) ==
    [op |-> op, trade |-> trade_index, key |-> key, thrown |-> thrown]

\* Mutant: only the missing element is handled.
CreateDraftCatches_OnlyNoSuchElement(thrown) == thrown = "NoSuchElementException"

\* stock_trader.py:227-230: except NoSuchElementException, except Exception
CreateDraftCatches(thrown) ==
    thrown \in {"NoSuchElementException", "KeyError", "WebDriverException"}

\* Mutant: the modal is closed at the end of the try block.
CloseModal_OnlyAfterSuccess(trade_index, thrown, missing) ==
    IF thrown = "none"
    THEN [events |-> <<Event("close", trade_index, "CLOSE_MODAL_BUTTON",
                             find_modal_element("CLOSE_MODAL_BUTTON", missing))>>,
          raises |-> "none"]
    ELSE [events |-> <<>>, raises |-> "none"]

\* stock_trader.py:231-238: finally, with a bare except around the close
CloseModal(trade_index, thrown, missing) ==
    [events |-> <<Event("close", trade_index, "CLOSE_MODAL_BUTTON",
                        find_modal_element("CLOSE_MODAL_BUTTON", missing))>>,
     raises |-> "none"]

\* stock_trader.py:157-238, with the driver set
create_draft(trade_data, trade_index, missing) ==
    LET steps == DraftSteps(trade_data)
        failing == {k \in 1..Len(steps) : StepThrows(steps[k], missing) /= "none"}
        last == IF failing = {} THEN Len(steps)
                ELSE CHOOSE k \in failing : \A j \in failing : k <= j
        thrown == StepThrows(steps[last], missing)
        close == CloseModal(trade_index, thrown, missing)
    IN  [events |-> <<Event("start", trade_index, trade_data.Name, "none")>>
                    \o [k \in 1..last |->
                          Event("step", trade_index, steps[k], StepThrows(steps[k], missing))]
                    \o close.events,
         drafted |-> thrown = "none",
         raises |-> IF thrown /= "none" /\ ~CreateDraftCatches(thrown) THEN thrown
                    ELSE close.raises]

\* stock_trader.py:250-278: every exception is caught inside
execute_drafts(missing) ==
    IF "DRAFTS_SECTION_TAB" \in missing \/ "BULK_SELECTION_BUTTON" \in missing
    THEN "failed"
    ELSE IF "BULK_ORDER_AND_REMOVE" \in missing THEN "waited_failed"
    ELSE "waited_submitted"

\* the elements a page may lack while a trade is drafted
DraftPages == SUBSET {"OPEN_MODAL_BUTTON", "SEARCH_INPUT", "CLOSE_MODAL_BUTTON"}

ExecPages ==
    {{}, {"DRAFTS_SECTION_TAB"}, {"BULK_SELECTION_BUTTON"}, {"BULK_ORDER_AND_REMOVE"}}

\* the rows the account's sheet may hold
FlowRows ==
    { Row(Str(<<" ", "b">>), Num(0), Num(0), Str(<<"b", "u", "y">>)),
      Row(Str(<<"a">>), Num(500), Num(150), Str(<<"s", "e", "l", "l", " ">>)),
      Row(Str(<<"a">>), Num(0), Num(0), Str(<<"h", "o", "l", "d">>)) }

InitWorkflow ==
    /\ rw_pc = "start"
    /\ rw_trades = <<>>
    /\ rw_driver = "none"
    /\ rw_logins = <<>>
    /\ rw_i = 0
    /\ rw_events = <<>>
    /\ rw_submitted = "no"
    /\ rw_exit = ""
    /\ WaitIdle
    /\ ChunkIdle
    /\ OrchIdle
    /\ TradesIdle
    /\ LogIdle
    /\ CaptchaIdle

FlowFrame == UNCHANGED <<waitVars, chunkVars, orchVars, tradeVars, logVars, captchaVars>>

\* stock_trader.py:330-341: initialize_data, setup_webdriver, driver.get
RwStart ==
    /\ rw_pc = "start"
    /\ \E rows \in SeqsUpTo(FlowRows, MaxTrades), driver \in {"none", "live"}, get_ok \in BOOLEAN :
          LET trades == read_trade_data(rows).trades
          IN  /\ rw_trades' = trades
              /\ IF trades = <<>>
                 THEN rw_driver' = "none" /\ rw_exit' = "no_trades" /\ rw_pc' = "done"
                 ELSE IF driver = "none"
                 THEN rw_driver' = "none" /\ rw_exit' = "no_driver" /\ rw_pc' = "done"
                 ELSE IF ~get_ok
                 THEN rw_driver' = "live" /\ rw_exit' = "raised" /\ rw_pc' = "done"
                 ELSE rw_driver' = "live" /\ rw_exit' = "" /\ rw_pc' = "login"
    /\ UNCHANGED <<rw_logins, rw_i, rw_events, rw_submitted>>
    /\ FlowFrame

\* stock_trader.py:344-352: one turn of the login loop
RwLogin ==
    /\ rw_pc = "login"
    /\ \E page \in LoginPages :
          LET r == login(page)
              after == AfterLoginAttempt(Len(rw_logins), r.ret)
          IN  /\ rw_logins' = Append(rw_logins, r)
              /\ rw_pc' = CASE after = "break" -> "modal_check"
                            [] after = "retry" -> "login"
                            [] OTHER -> "done"
              /\ rw_driver' = IF after = "else" THEN "quit" ELSE rw_driver
              /\ rw_exit' = IF after = "else" THEN "login_failed" ELSE rw_exit
    /\ UNCHANGED <<rw_trades, rw_i, rw_events, rw_submitted>>
    /\ FlowFrame

\* stock_trader.py:356-362
RwModalCheck ==
    /\ rw_pc = "modal_check"
    /\ \E modal \in ModalStates :
          LET c == check_and_close_password_modal(modal)
          IN  IF c.raises = "none"
              THEN rw_pc' = "draft" /\ rw_i' = 1 /\ rw_exit' = rw_exit
              ELSE rw_pc' = "finally" /\ rw_i' = rw_i /\ rw_exit' = "fatal"
    /\ UNCHANGED <<rw_trades, rw_driver, rw_logins, rw_events, rw_submitted>>
    /\ FlowFrame

\* stock_trader.py:365-372: one turn of the draft loop
RwDraft ==
    /\ rw_pc = "draft"
    /\ \E missing \in DraftPages :
          LET r == create_draft(rw_trades[rw_i], rw_i, missing)
          IN  /\ rw_events' = rw_events \o r.events
              /\ IF r.raises /= "none"
                 THEN rw_pc' = "finally" /\ rw_i' = rw_i /\ rw_exit' = "fatal"   \* 382-383
                 ELSE /\ rw_i' = rw_i + 1
                      /\ rw_pc' = IF rw_i = Len(rw_trades) THEN "execute" ELSE "draft"
                      /\ rw_exit' = rw_exit
    /\ UNCHANGED <<rw_trades, rw_driver, rw_logins, rw_submitted>>
    /\ FlowFrame

\* stock_trader.py:380
RwExecute ==
    /\ rw_pc = "execute"
    /\ \E missing \in ExecPages : rw_submitted' = execute_drafts(missing)
    /\ rw_pc' = "finally"
    /\ UNCHANGED <<rw_trades, rw_driver, rw_logins, rw_i, rw_events, rw_exit>>
    /\ FlowFrame

\* stock_trader.py:385-397: the logout click may fail, the driver is quit
RwFinally ==
    /\ rw_pc = "finally"
    /\ rw_driver' = "quit"
    /\ rw_exit' = IF rw_exit = "" THEN "returned" ELSE rw_exit
    /\ rw_pc' = "done"
    /\ UNCHANGED <<rw_trades, rw_logins, rw_i, rw_events, rw_submitted>>
    /\ FlowFrame

NextWorkflow ==
    \/ RwStart
    \/ RwLogin
    \/ RwModalCheck
    \/ RwDraft
    \/ RwExecute
    \/ RwFinally

SpecWorkflow == InitWorkflow /\ [][NextWorkflow]_vars

(***************************************************************************)
(* Claims about run_workflow                                               *)
(***************************************************************************)
\* C15: at most 5 login attempts are made; no attempt follows a successful
\* one; the workflow ends as a login failure if and only if 5 attempts were
\* made and all failed; after that no trade was drafted, no bulk submission
\* was attempted and the driver is quit; drafting and submission start only
\* after a successful attempt.
C15_BoundedLoginRetry ==
    /\ Len(rw_logins) <= 5
    /\ \A k \in 1..Len(rw_logins) : rw_logins[k].ret => k = Len(rw_logins)
    /\ rw_exit = "login_failed" <=>
          (Len(rw_logins) = 5 /\ \A k \in 1..5 : ~rw_logins[k].ret)
    /\ rw_exit = "login_failed" =>
          rw_events = <<>> /\ rw_submitted = "no" /\ rw_driver = "quit" /\ rw_pc = "done"
    /\ (rw_events /= <<>> \/ rw_submitted /= "no"
          \/ rw_pc \in {"modal_check", "draft", "execute", "finally"}) =>
          (rw_logins /= <<>> /\ rw_logins[Len(rw_logins)].ret)

\* the fifth attempt failed and the workflow gave up
C15_Witness ==
    /\ rw_exit = "login_failed"
    /\ Len(rw_logins) = 5
    /\ rw_trades /= <<>>

\* C16: a login attempt returns True only if it saw the dashboard marker or
\* the change-password modal.
C16_SuccessOnlyWithMarker ==
    \A k \in 1..Len(rw_logins) :
        rw_logins[k].ret => rw_logins[k].marker \in {"dashboard", "modal"}

StartsOf(events) == SelectSeq(events, LAMBDA e : e.op = "start")

\* C17: no exception leaves create_draft; the trades whose drafting was
\* started are the first trades of the list, once each and in list order;
\* when the loop is over every trade of the list was started.
C17_EveryTradeAttemptedInOrder ==
    /\ rw_exit /= "fatal"
    /\ LET starts == StartsOf(rw_events)
       IN  /\ Len(starts) <= Len(rw_trades)
           /\ \A k \in 1..Len(starts) :
                 starts[k].trade = k /\ starts[k].key = rw_trades[k].Name
           /\ rw_pc = "draft" => Len(starts) = rw_i - 1
           /\ (rw_pc \in {"execute", "finally"} \/ rw_exit = "returned") =>
                 Len(starts) = Len(rw_trades)

\* the first of two trades failed and the second was attempted all the same
C17_Witness ==
    /\ rw_exit = "returned"
    /\ Len(rw_trades) = 2
    /\ \E k \in 1..Len(rw_events) :
          rw_events[k].trade = 1 /\ rw_events[k].op = "step" /\ rw_events[k].thrown /= "none"
    /\ \E k \in 1..Len(rw_events) : rw_events[k].trade = 2 /\ rw_events[k].op = "start"

C23_DriverQuitOnEveryExit ==
    rw_pc = "done" => rw_driver /= "live"

\* C26 (as claimed): a trade drafted on a page that lacks none of the
\* elements asked for reaches the volume and price steps, uses the control
\* its volume and its price select, and clicks the draft button.
C26_PresentElementsDrafted ==
    \A i \in 1..Len(rw_trades) :
        LET mine == {k \in 1..Len(rw_events) : rw_events[k].trade = i}
            clicked(key) == \E k \in mine : /\ rw_events[k].op = "step"
                                            /\ rw_events[k].key = key
                                            /\ rw_events[k].thrown = "none"
        IN  (/\ mine /= {}
             /\ \A k \in mine : rw_events[k].thrown /= "NoSuchElementException") =>
                /\ clicked(IF rw_trades[i].Volume = 0 THEN "MAX_VOLUME_CLICK" ELSE "VOLUME_INPUT")
                /\ clicked(IF rw_trades[i].Price = 0 THEN "LOCK_PRICE_BUTTON" ELSE "PRICE_INPUT")
                /\ clicked("DRAFT_BUTTON")

(***************************************************************************)
(* log (utils.py), called by the processes of a run that share             *)
(* bot_log.txt                                                             *)
(***************************************************************************)
Writers == 1..MaxWriters

Line(w, n) == [by |-> w, n |-> n]

\* utils.py:29: open(LOG_FILE_NAME, 'w'): the file is cut to length zero and
\* the stream starts at offset 0
OpenLog(file) == [content |-> <<>>, offset |-> 0]

\* utils.py:30 and the end of the with block: the buffered line reaches the
\* file at the stream's offset (lines taken as units)
WriteLine(file, offset, line) ==
    IF offset >= Len(file) THEN file \o <<line>>
    ELSE [file EXCEPT ![offset + 1] = line]

InitLog ==
    /\ lg_pc = [w \in Writers |-> "idle"]
    /\ lg_msg = [w \in Writers |-> Line(w, 0)]
    /\ lg_file = <<>>
    /\ lg_logged = {}
    /\ lg_n = 0
    /\ WaitIdle
    /\ ChunkIdle
    /\ OrchIdle
    /\ TradesIdle
    /\ FlowIdle
    /\ CaptchaIdle

LogFrame == UNCHANGED <<waitVars, chunkVars, orchVars, tradeVars, flowVars, captchaVars>>

\* utils.py:23-29: the line is built and the file opened
LogOpen(w) ==
    /\ lg_pc[w] = "idle"
    /\ lg_n < MaxLogCalls
    /\ lg_n' = lg_n + 1
    /\ lg_msg' = [lg_msg EXCEPT ![w] = Line(w, lg_n + 1)]
    /\ lg_file' = OpenLog(lg_file).content
    /\ lg_pc' = [lg_pc EXCEPT ![w] = "open"]
    /\ UNCHANGED lg_logged
    /\ LogFrame

\* utils.py:30-39: the line is written, the file closed, the line printed
LogWrite(w) ==
    /\ lg_pc[w] = "open"
    /\ lg_file' = WriteLine(lg_file, OpenLog(lg_file).offset, lg_msg[w])
    /\ lg_logged' = lg_logged \cup {lg_msg[w]}
    /\ lg_pc' = [lg_pc EXCEPT ![w] = "idle"]
    /\ UNCHANGED <<lg_msg, lg_n>>
    /\ LogFrame

NextLog == \E w \in Writers : LogOpen(w) \/ LogWrite(w)

SpecLog == InitLog /\ [][NextLog]_vars

\* C22 (as claimed): every line whose call of log() has returned is in the
\* log file.
C22_LogKeepsEveryLine ==
    \A line \in lg_logged : \E k \in 1..Len(lg_file) : lg_file[k] = line

(***************************************************************************)
(* process_and_solve_captcha (utils.py), called by the processes of a      *)
(* phase, which share TEMP_IMAGE_FILE                                      *)
(***************************************************************************)
Solvers == 1..MaxSolvers

\* the text returned when no text was read
NoText == 0

\* utils.py:144-162: ocr_captcha_image reads the file that is at the path now;
\* the image of process v shows the text v; no file, or no confident reading,
\* gives ""
ocr_captcha_image(file, readable) ==
    IF file = 0 \/ ~readable THEN NoText ELSE file

InitCaptcha ==
    /\ cp_pc = [w \in Solvers |-> "fetch"]
    /\ cp_file = 0
    /\ cp_text = [w \in Solvers |-> NoText]
    /\ WaitIdle
    /\ ChunkIdle
    /\ OrchIdle
    /\ TradesIdle
    /\ FlowIdle
    /\ LogIdle

CaptchaFrame == UNCHANGED <<waitVars, chunkVars, orchVars, tradeVars, flowVars, logVars>>

\* utils.py:168-186: the image is located and its bytes obtained, or not
CaptchaFetch(w) ==
    /\ cp_pc[w] = "fetch"
    /\ \E got \in BOOLEAN :
          cp_pc' = [cp_pc EXCEPT ![w] = IF got THEN "save" ELSE "finally"]
    /\ UNCHANGED <<cp_file, cp_text>>
    /\ CaptchaFrame

\* utils.py:188-191: the bytes are written to TEMP_IMAGE_FILE
CaptchaSave(w) ==
    /\ cp_pc[w] = "save"
    /\ cp_file' = w
    /\ cp_pc' = [cp_pc EXCEPT ![w] = "ocr"]
    /\ UNCHANGED cp_text
    /\ CaptchaFrame

\* utils.py:193-195: OCR of TEMP_IMAGE_FILE; the text is the return value
CaptchaOcr(w) ==
    /\ cp_pc[w] = "ocr"
    /\ \E readable \in BOOLEAN :
          cp_text' = [cp_text EXCEPT ![w] = ocr_captcha_image(cp_file, readable)]
    /\ cp_pc' = [cp_pc EXCEPT ![w] = "finally"]
    /\ UNCHANGED cp_file
    /\ CaptchaFrame

\* utils.py:201-202: if os.path.exists(TEMP_IMAGE_FILE)
CaptchaExists(w) ==
    /\ cp_pc[w] = "finally"
    /\ cp_pc' = [cp_pc EXCEPT ![w] = IF cp_file /= 0 THEN "remove" ELSE "returned"]
    /\ UNCHANGED <<cp_file, cp_text>>
    /\ CaptchaFrame

\* utils.py:203-204: os.remove(TEMP_IMAGE_FILE), which raises when the file
\* is gone by now
CaptchaRemove(w) ==
    /\ cp_pc[w] = "remove"
    /\ cp_pc' = [cp_pc EXCEPT ![w] = IF cp_file /= 0 THEN "returned" ELSE "raised"]
    /\ cp_file' = 0
    /\ UNCHANGED cp_text
    /\ CaptchaFrame

NextCaptcha ==
    \E w \in Solvers :
        \/ CaptchaFetch(w)
        \/ CaptchaSave(w)
        \/ CaptchaOcr(w)
        \/ CaptchaExists(w)
        \/ CaptchaRemove(w)

SpecCaptcha == InitCaptcha /\ [][NextCaptcha]_vars

FairWorkflow == SpecWorkflow /\ WF_vars(NextWorkflow)

\* the login loop, the draft loop and the workflow end
WorkflowTerminates == <>(rw_pc = "done")

(***************************************************************************)
(* Claims about a run of main_orchestrator                                 *)
(***************************************************************************)
OrchestratorWaits == {e \in waits : e.by = "orchestrator"}
OtherWaits == {e \in waits : e.by /= "orchestrator"}

\* C1: no Phase 2 worker is launched and no bulk order button is clicked
\* before the orchestrator's call of wait_until_market_open has returned.
C1_Phase2AfterGlobalWait ==
    (wk[2] /= <<>> \/ submissions /= {} \/ OtherWaits /= {}) => global_wait_done

C1_Witness ==
    /\ global_wait_done
    /\ \E b \in 1..Len(wk[2]) : wk[2][b].pc = "returned"
    /\ submissions /= {}

C3_OnlyOrchestratorWaits ==
    /\ OtherWaits = {}
    /\ Cardinality(OrchestratorWaits) <= 1
    /\ (o_pc = "done" => Cardinality(OrchestratorWaits) = 1)

\* C4 (as claimed): once the global wait has returned, no account is put to
\* sleep again before its bulk submission (and so none waits for the next day).
C4_NoSleepAfterGlobalWait ==
    \A e \in OtherWaits : e.result.sleep_duration = 0

\* the merged list has one entry for each task, with an outcome of the four
EntriesMatch(merged, ts) ==
    /\ Len(merged) = Len(ts)
    /\ \A k \in 1..Len(ts) :
          Cardinality({j \in 1..Len(merged) : merged[j].username = ts[k].username}) = 1
    /\ \A j \in 1..Len(merged) : merged[j].outcome \in Outcomes

C10_AllPasswordAccountsTasked ==
    (o_pc /= "start") => (tasks = TasksOf(user_credentials))


\* C11: when no credential was loaded, or no loaded account has a non-empty
\* password, main_orchestrator returns before anything is done: no batch, no
\* worker of either phase, no call of wait_until_market_open.
C11_AbortsWithoutUsableAccount ==
    (/\ o_pc \notin {"off", "start"}
     /\ \A k \in 1..Len(user_credentials) : user_credentials[k].password = "")
        => /\ o_pc = "aborted"
           /\ o_abort \in {"no_credentials", "no_tasks"}
           /\ tasks = <<>>
           /\ task_batches = <<>>
           /\ wk[1] = <<>> /\ wk[2] = <<>>
           /\ waits = {}
           /\ submissions = {}
           /\ ~global_wait_done

\* two loaded accounts, both without a password
C11_Witness ==
    /\ o_pc = "aborted"
    /\ o_abort = "no_tasks"
    /\ Len(user_credentials) = 2
    /\ \A k \in 1..Len(user_credentials) : user_credentials[k].password = ""

Workers == {pb \in (1..2) \X (1..MAX_PROCESSES) : pb[2] <= Len(wk[pb[1]])}

LoginFailedAt(w, k) == Call(k, "initialize_session", "fail") \in w.calls

\* C12: when initialize_session fails for an account, in either phase, the
\* account is recorded LOGIN_FAILURE, neither its phase action nor its logout
\* nor a wait is performed for it, and the worker goes on to the next account;
\* the except handler runs only after a call that raised.
C12_LoginFailureIsolated ==
    \A pb \in Workers :
        LET w == wk[pb[1]][pb[2]]
            batch == task_batches[pb[2]]
        IN  /\ \A k \in 1..Len(batch) :
                  LoginFailedAt(w, k) =>
                     /\ batch[k].username \in DOMAIN w.results
                     /\ w.results[batch[k].username] = "LOGIN_FAILURE"
                     /\ \A c \in w.calls : c.k = k => c.op = "initialize_session"
                     /\ w.i > k
                     /\ w.pc \in {"loop", "finally", "returned", "escaped"}
            /\ (w.failed => (~w.trader \/ \E c \in w.calls : c.ret = "raise"))

C12_Witness ==
    /\ \E b \in 1..Len(wk[1]) :
          /\ LoginFailedAt(wk[1][b], 1) /\ wk[1][b].pc = "returned" /\ ~wk[1][b].failed
    /\ \E b \in 1..Len(wk[2]) :
          /\ LoginFailedAt(wk[2][b], 1) /\ wk[2][b].pc = "returned" /\ ~wk[2][b].failed

\* the outcome the loop body had stored for position k before the exception,
\* "" if it had stored none
StoredByLoop(w, k, p) ==
    IF LoginFailedAt(w, k) THEN "LOGIN_FAILURE"
    ELSE IF Call(k, PhaseAction(p), "ok") \in w.calls
            /\ \E c \in w.calls : c.k = k /\ c.op = "safe_logout" THEN "SUCCESS"
    ELSE IF Call(k, PhaseAction(p), "fail") \in w.calls
            /\ \E c \in w.calls : c.k = k /\ c.op = "safe_logout" THEN "FAILURE"
    ELSE ""

\* C13: once an exception has escaped the loop of a batch, the loop is not
\* resumed (no call is made for a later account), every account without an
\* outcome is PROCESS_ERROR, every outcome stored before is unchanged, and the
\* driver of a constructed trader is quit when the worker returns.
C13_ExceptionAbandonsBatch ==
    \A pb \in Workers :
        LET w == wk[pb[1]][pb[2]]
            batch == task_batches[pb[2]]
        IN  w.failed =>
              /\ w.pc \in {"finally", "returned", "escaped"}
              /\ \A c \in w.calls : c.k <= w.i
              /\ \A k \in 1..Len(batch) :
                    /\ batch[k].username \in DOMAIN w.results
                    /\ w.results[batch[k].username] =
                          (IF StoredByLoop(w, k, pb[1]) = "" THEN "PROCESS_ERROR"
                           ELSE StoredByLoop(w, k, pb[1]))
              /\ (w.pc = "returned" /\ w.trader => w.quits = 1 /\ w.driver /= "open")

\* safe_logout raised after SUCCESS was stored (phase 1); execute_bulk_session
\* raised before any outcome (phase 2)
C13_Witness ==
    /\ \E b \in 1..Len(wk[1]) :
          /\ wk[1][b].failed /\ wk[1][b].pc = "returned" /\ wk[1][b].driver = "quit"
          /\ \E u \in DOMAIN wk[1][b].results : wk[1][b].results[u] = "SUCCESS"
    /\ \E b \in 1..Len(wk[2]) :
          /\ wk[2][b].failed /\ wk[2][b].pc = "returned" /\ wk[2][b].driver = "quit"
          /\ \E u \in DOMAIN wk[2][b].results : wk[2][b].results[u] = "PROCESS_ERROR"

CallsFor(w, k) == {c \in w.calls : c.k = k}

\* C25: for every account a worker has finished without an exception, the
\* stored outcome is LOGIN_FAILURE exactly when initialize_session returned
\* False, SUCCESS exactly when it returned True and the phase action returned
\* True, FAILURE exactly when it returned True and the phase action returned
\* False; after SUCCESS or FAILURE safe_logout was called and the loop went on
\* to the next position.
C25_OutcomeMapping ==
    \A pb \in Workers :
        LET w == wk[pb[1]][pb[2]]
            batch == task_batches[pb[2]]
            action == IF pb[1] = 1 THEN "draft_single_task" ELSE "execute_bulk_session"
        IN  \A k \in 1..Len(batch) :
              (k < w.i /\ \A c \in CallsFor(w, k) : c.ret /= "raise") =>
                 LET out == w.results[batch[k].username]
                     logged_in == Call(k, "initialize_session", "ok") \in w.calls
                 IN  /\ batch[k].username \in DOMAIN w.results
                     /\ out = "LOGIN_FAILURE" <=> Call(k, "initialize_session", "fail") \in w.calls
                     /\ out = "SUCCESS" <=> (logged_in /\ Call(k, action, "ok") \in w.calls)
                     /\ out = "FAILURE" <=> (logged_in /\ Call(k, action, "fail") \in w.calls)
                     /\ out \in {"SUCCESS", "FAILURE"} => Call(k, "safe_logout", "ok") \in w.calls
                     /\ out \in {"LOGIN_FAILURE", "SUCCESS", "FAILURE"}

\* a failed draft in Phase 1 and a failed bulk submission in Phase 2, each
\* recorded FAILURE, followed by the logout and the end of the loop
C25_Witness ==
    /\ \E b \in 1..Len(wk[1]) :
          /\ wk[1][b].pc = "returned" /\ ~wk[1][b].failed /\ wk[1][b].i = 2
          /\ wk[1][b].results[task_batches[b][1].username] = "FAILURE"
    /\ \E b \in 1..Len(wk[2]) :
          /\ wk[2][b].pc = "returned" /\ ~wk[2][b].failed /\ wk[2][b].i = 2
          /\ wk[2][b].results[task_batches[b][1].username] = "FAILURE"
          /\ Call(1, "safe_logout", "ok") \in wk[2][b].calls

\* C28 (as claimed): all the calls of wait_until_market_open of a run have
\* the same target time of day.
C28_OneTargetForAllWaits ==
    \A e1, e2 \in waits : e1.hour = e2.hour /\ e1.minute = e2.minute

\* C29: the batches are those cut before Phase 1 and stay as they are; Phase 2
\* has one worker for each of them, in the same order, whatever Phase 1
\* recorded; a Phase 2 worker that ends without an exception has logged in
\* every account of its batch and run the bulk submission for each account
\* whose login succeeded.
C29_Phase2SameBatches ==
    /\ o_pc \in {"join1", "wait", "sleeping", "launch2", "join2", "done"} =>
          /\ task_batches = chunk_tasks(tasks, MAX_PROCESSES)
          /\ Len(wk[1]) = Len(task_batches)
    /\ wk[2] /= <<>> => Len(wk[2]) = Len(task_batches)
    /\ \A b \in 1..Len(wk[2]) :
          LET w == wk[2][b]
              batch == task_batches[b]
          IN  (w.pc = "returned" /\ ~w.failed) =>
                 \A k \in 1..Len(batch) :
                    /\ \E c \in w.calls : c.k = k /\ c.op = "initialize_session"
                    /\ Call(k, "initialize_session", "ok") \in w.calls =>
                          \E c \in w.calls : c.k = k /\ c.op = "execute_bulk_session"

\* the account's Phase 1 login failed; in Phase 2 it is logged in and its
\* drafts are submitted
C29_Witness ==
    /\ o_pc = "done"
    /\ \E j \in 1..Len(draft_results) : draft_results[j].outcome = "LOGIN_FAILURE"
    /\ \E b \in 1..Len(wk[2]) :
          /\ Call(1, "initialize_session", "ok") \in wk[2][b].calls
          /\ Call(1, "execute_bulk_session", "ok") \in wk[2][b].calls
    /\ submissions /= {}

\* Processes that are able to take a step take one: a pool process runs until
\* its function ends, a sleep ends, a browser call returns or raises.
FairSpec == Spec /\ WF_vars(Next)

\* every process of the run has ended, one way or another
RunEnded ==
    /\ o_pc \in {"done", "aborted"}
    /\ \A pb \in Workers : wk[pb[1]][pb[2]].pc \in {"returned", "escaped", "terminated"}

\* no loop runs forever: the run ends
RunTerminates == <>RunEnded

\* C30 (as claimed): every worker of every phase eventually returns its
\* outcome map and main_orchestrator eventually returns.
C30_EveryWorkerReturnsItsMap ==
    <>(/\ o_pc \in {"done", "aborted"}
       /\ \A pb \in Workers : wk[pb[1]][pb[2]].pc = "returned")

\* C21: when an exception escapes the Phase 1 pool (its creation or its map),
\* the run returns: no wait is started, no Phase 2 worker exists, nothing is
\* submitted and no result list is built.  When it escapes the Phase 2 pool,
\* the run returns without a Phase 2 result list and never reaches the end.
C21_PhaseLaunchFailureFatal ==
    /\ o_abort = "pool1" =>
          /\ o_pc = "aborted"
          /\ waits = {} /\ ~global_wait_done
          /\ wk[2] = <<>> /\ submissions = {}
          /\ draft_results = <<>> /\ exec_results = <<>>
    /\ o_abort = "pool2" =>
          /\ o_pc = "aborted"
          /\ exec_results = <<>>
    /\ o_pc \in {"wait", "sleeping", "launch2", "join2", "done"} => o_abort = ""

\* the exception of a Phase 1 worker came out of pool.map
C21_Witness ==
    /\ o_abort = "pool1"
    /\ \E b \in 1..Len(wk[1]) : wk[1][b].pc = "escaped"

\* C24 (as claimed): no exception leaves a batch worker function, whatever
\* raised it, so no pool.map fails because of a worker and no sibling worker
\* is cut short.
C24_NoExceptionLeavesWorker ==
    \A pb \in Workers : wk[pb[1]][pb[2]].pc \notin {"escaped", "terminated"}

(***************************************************************************)
(* Claims about wait_until_market_open                                     *)
(***************************************************************************)
w_target_today == combine(DateOf(w_now), dt_time(w_hour, w_minute))

C6_BeforeTargetSleepsDifference ==
    (w_pc = "done" /\ w_now < w_target_today)
        => (w_result.sleep_duration = w_target_today - w_now /\ w_result.branch = "today")

C6_Witness ==
    /\ w_pc = "done"
    /\ w_now = w_target_today - 5
    /\ w_result.sleep_duration = 5

\* C7: a call made later than target + grace_period waits for the same time of
\* day on the following day; the sleep is the distance from now to that
\* instant, strictly positive and strictly below 24 hours.
C7_PastGraceSleepsUntilTomorrow ==
    (w_pc = "done" /\ w_now > w_target_today + grace_period)
        => /\ w_result.branch = "tomorrow"
           /\ w_result.target_datetime = w_target_today + DaySeconds
           /\ w_result.target_datetime % DaySeconds = dt_time(w_hour, w_minute)
           /\ w_now + w_result.sleep_duration = w_target_today + DaySeconds
           /\ w_result.sleep_duration > 0
           /\ w_result.sleep_duration < DaySeconds

C7_Witness ==
    /\ w_pc = "done"
    /\ w_now = w_target_today + 15
    /\ w_result.sleep_duration = DaySeconds - 15

(***************************************************************************)
(* Claim about chunk_tasks                                                 *)
(***************************************************************************)
\* C8: for a non-empty list of N accounts and W >= 1 workers, chunk_tasks
\* gives at most W batches, none empty, each of at most ceil(N/W) accounts and
\* all but the last of exactly ceil(N/W); the batches concatenated in order
\* are the original list.
C8_ChunkPartition ==
    (c_pc = "done" /\ c_num >= 1 /\ Len(c_tasks) >= 1)
        => LET N == Len(c_tasks)
               size == Ceil(N, c_num)
           IN  /\ Len(c_out) <= c_num
               /\ Len(c_out) >= 1
               /\ \A j \in 1..Len(c_out) : Len(c_out[j]) >= 1 /\ Len(c_out[j]) <= size
               /\ \A j \in 1..(Len(c_out) - 1) : Len(c_out[j]) = size
               /\ Flatten(c_out) = c_tasks

\* N = 3, W = 2 gives batches of 2 and 1
C8_Witness ==
    /\ c_pc = "done"
    /\ Len(c_tasks) = 3 /\ c_num = 2
    /\ Len(c_out) = 2 /\ Len(c_out[1]) = 2 /\ Len(c_out[2]) = 1

====
